---- MODULE Spec2Model ----
(***************************************************************************)
(* Verification model of the searoute route composition code:              *)
(*   - splitter (src/pasgen.go), the graph preparer;                       *)
(*   - calculatePassageInfo and its callers (src/main.go);                 *)
(*   - the multi-route page script (src/unnamed/part_000) and the          *)
(*     /multi-routes service it calls.                                     *)
(*                                                                         *)
(* A gdj.Position is the tuple <<lon, lat>> (Go indexes 0 and 1 are the    *)
(* TLA+ indexes 1 and 2).  Coordinates are integers in units of 0.00001    *)
(* degree, the tolerance handed to FindPath, so that one unit is exactly   *)
(* the tolerance.  A float64 distance in kilometres is a fixed-point       *)
(* integer in thousandths of a kilometre; a distance in metres is an       *)
(* integer number of metres.                                               *)
(***************************************************************************)
EXTENDS Integers, Sequences, FiniteSets, TLC

VARIABLES
    \* --- graph preparer run on its own (SplitSpec)
    rawFc,        \* the FeatureCollection handed to splitter
    splitFc,      \* splitter(rawFc)
    resplitFc,    \* splitter(splitFc)
    splitPc,      \* "start" | "split" | "resplit"
    \* --- the route server (Spec)
    splitFile,    \* dataset/splitCoords.geojson
    rawFile,      \* dataset/marnet_densified_v2.geojson
    outputFile,   \* temp/output.geojson
    request,      \* the request being answered
    response,     \* what the handler returned for it
    searches,     \* the FindPath calls made for it, in order, with results
    \* --- the multi-route page and its service (UISpec)
    input,        \* the text of coordinates-input at the last click
    alert,        \* the alert raised by the last step, <<>> if none
    spinning,     \* whether the spinner is shown
    display,      \* what the map and the result box show
    stitched,     \* the StitchedRoute behind the service's last reply
    pagePc,       \* "idle" | "posted" | "answered"
    \* --- the longitude arithmetic run on its own (LonSpec)
    lonIn,        \* the longitude, or the origin/destination pair, put in
    lonOut,       \* what normalisation or the pair adjustment made of it
    lonPc,        \* "idle" | "start" | "normalized" | "renormalized" | "adjusted"
    \* --- requests served side by side (ConcSpec)
    procs,        \* each request's position in calculatePassageInfo and its locals
    builds,       \* the requests that constructed a routing graph, in order
    writes        \* the requests that wrote temp/output.geojson, in order

splitVars == <<rawFc, splitFc, resplitFc, splitPc>>

serverVars == <<splitFile, rawFile, outputFile, request, response, searches>>

pageVars == <<input, alert, spinning, display, stitched, pagePc>>

lonVars == <<lonIn, lonOut, lonPc>>

concVars == <<procs, builds, writes>>

vars == <<rawFc, splitFc, resplitFc, splitPc,
          splitFile, rawFile, outputFile, request, response, searches,
          input, alert, spinning, display, stitched, pagePc,
          lonIn, lonOut, lonPc, procs, builds, writes>>

\* ------------------------------------------------------------------ units

\* Units per degree: the reciprocal of the FindPath tolerance 0.00001.
Deg == 100000

Abs(x) == IF x < 0 THEN -x ELSE x

Reverse(s) == [i \in 1..Len(s) |-> s[Len(s) + 1 - i]]

\* ------------------------------------------------------- graph preparer

\* gdj.Feature{Type: "Feature", Geometry: gdj.Geometry{Type: "LineString", ...}}
NewLineFeature(coords) ==
    [type |-> "Feature",
     geometry |-> [type |-> "LineString", coordinates |-> coords]]

FeatureCollection(features) ==
    [type |-> "FeatureCollection", features |-> features]

\* Plausible slip: the inner loop stops one pair early (i < lengthOfCoords-2).
RECURSIVE SplitCoordsShort(_, _)
SplitCoordsShort(coords, i) ==
    IF i < Len(coords) - 1
    THEN <<NewLineFeature(<<coords[i], coords[i + 1]>>)>>
             \o SplitCoordsShort(coords, i + 1)
    ELSE <<>>

\* Plausible slip: the pair is emitted as (coord2, coord1).
RECURSIVE SplitCoordsSwapped(_, _)
SplitCoordsSwapped(coords, i) ==
    IF i < Len(coords)
    THEN <<NewLineFeature(<<coords[i + 1], coords[i]>>)>>
             \o SplitCoordsSwapped(coords, i + 1)
    ELSE <<>>

\* The inner loop of splitter: for i := 0; i < lengthOfCoords-1; i++
\* (i is 1-based here, so the guard i < Len(coords) is the Go guard).
RECURSIVE SplitCoords(_, _)
SplitCoords(coords, i) ==
    IF i < Len(coords)
    THEN <<NewLineFeature(<<coords[i], coords[i + 1]>>)>>
             \o SplitCoords(coords, i + 1)
    ELSE <<>>

\* The outer loop of splitter: for _, feature := range fc.Features
RECURSIVE SplitFeatures(_, _)
SplitFeatures(features, k) ==
    IF k > Len(features)
    THEN <<>>
    ELSE SplitCoords(features[k].geometry.coordinates, 1)
             \o SplitFeatures(features, k + 1)

splitter(fc) == FeatureCollection(SplitFeatures(fc.features, 1))

NoFc == FeatureCollection(<<>>)

SeqsUpTo(S, n) == UNION {[1..m -> S] : m \in 0..n}

\* ------------------------------------------------------------ distances

\* FindPath's tolerance argument, 0.00001 degree, in coordinate units.
Tolerance == 1

\* A float64 is kept as a fixed-point integer with three decimals: this is
\* the float64 of a whole number n.
Fixed(n) == n * 1000

\* Difference of two longitudes the short way round the globe.
LonGap(a, b) ==
    LET d == Abs(a - b) % (360 * Deg)
    IN  IF d > 180 * Deg THEN 360 * Deg - d ELSE d

\* Length in metres of the great-circle arc between two points.  The
\* formula is the libraries' own; what the code relies on is a metric that
\* wraps at the antimeridian, and one coordinate unit is taken as one metre.
ArcMeters(lat1, lng1, lat2, lng2) == Abs(lat1 - lat2) + LonGap(lng1, lng2)

\* geo.NewPoint(lat, lng)
NewPoint(lat, lng) == [lat |-> lat, lng |-> lng]

\* geo.Point.GreatCircleDistance: kilometres.  In thousandths of a
\* kilometre the value is the number of metres of the arc.
GreatCircleDistance(wp1, wp2) == ArcMeters(wp1.lat, wp1.lng, wp2.lat, wp2.lng)

\* CalcDistance(p1, p2): geo.NewPoint takes (lat, lng), a Position is (lon, lat).
CalcDistance(p1, p2) ==
    GreatCircleDistance(NewPoint(p1[2], p1[1]), NewPoint(p2[2], p2[1]))

\* --------------------------------------- the search primitive, FindPath

Vertices(fc) ==
    UNION {{fc.features[k].geometry.coordinates[i] :
                i \in 1..Len(fc.features[k].geometry.coordinates)} :
           k \in 1..Len(fc.features)}

Adjacent(fc, a, b) ==
    \E k \in 1..Len(fc.features) :
        LET c == fc.features[k].geometry.coordinates
        IN  \E i \in 1..(Len(c) - 1) : {c[i], c[i + 1]} = {a, b}

PointGap(p, q) == ArcMeters(p[2], p[1], q[2], q[1])

\* The graph vertices a raw coordinate may be snapped to: the nearest ones,
\* no farther than the tolerance.
Snap(fc, p, tol) ==
    LET near == {v \in Vertices(fc) : PointGap(p, v) <= tol}
    IN  {v \in near : \A w \in near : PointGap(p, v) <= PointGap(p, w)}

RECURSIVE PathMeters(_, _)
PathMeters(path, i) ==
    IF i >= Len(path) THEN 0
    ELSE PointGap(path[i], path[i + 1]) + PathMeters(path, i + 1)

\* Simple paths of the graph that extend prefix to b.
RECURSIVE PathsOnward(_, _, _)
PathsOnward(fc, prefix, b) ==
    LET last == prefix[Len(prefix)]
        seen == {prefix[i] : i \in 1..Len(prefix)}
    IN  IF last = b
        THEN {prefix}
        ELSE UNION {PathsOnward(fc, Append(prefix, v), b) :
                        v \in {w \in Vertices(fc) \ seen : Adjacent(fc, last, w)}}

SimplePaths(fc, a, b) == PathsOnward(fc, <<a>>, b)

ShortestPaths(fc, a, b) ==
    LET all == SimplePaths(fc, a, b)
    IN  {s \in all : \A t \in all : PathMeters(s, 1) <= PathMeters(t, 1)}

PathError == [path |-> <<>>, distance |-> 0, err |-> TRUE]

\* (*FeatureCollection).FindPath(start, end, tolerance): the outcomes the
\* primitive may return.  On success the path is a shortest path of the
\* graph listed from the vertex at the destination back to the vertex at the
\* origin, and the distance is its length in metres; it fails when an end
\* has no vertex within the tolerance or the two vertices are not connected.
FindPath(fc, start, end, tol) ==
    LET from == Snap(fc, start, tol)
        to   == Snap(fc, end, tol)
        found == UNION {ShortestPaths(fc, t, f) : t \in to, f \in from}
    IN  IF found = {}
        THEN {PathError}
        ELSE {[path |-> s, distance |-> Fixed(PathMeters(s, 1)), err |-> FALSE] :
                s \in found}

\* ------------------------------------------------------------- pasgen.go

\* Output{}: the zero value returned beside an error.
NoOutput == [type |-> "", features |-> <<>>, name |-> ""]

\* generateOutput(...): the Output, which writeOutput also stores in
\* temp/output.geojson.
generateOutput(path, oCoords, dCoords, totalDistance, oToWpDist, wpToDDist, Wp2WpDist, routeName) ==
    [type |-> "FeatureCollection",
     features |-> <<
        [type |-> "Feature",
         geometry |-> [type |-> "LineString", coordinates |-> path],
         properties |-> [OCoords |-> oCoords, DCoords |-> dCoords,
                         OToWpDist |-> oToWpDist, WpToDDist |-> wpToDDist,
                         WpDist |-> Wp2WpDist, TotalDist |-> totalDistance,
                         RouteName |-> routeName],
         id |-> "1"] >>,
     name |-> "Short Sea Route"]

\* ----------------------------------------------- calculatePassageInfo

\* A dataset file: kind is "missing", "unreadable" (it exists and
\* os.ReadFile fails), "badjson", "null" (the JSON text null) or "ok".
File(kind, fc) == [fc |-> fc, kind |-> kind]

Failed(msg) == [err |-> msg, output |-> NoOutput, calls |-> <<>>, written |-> FALSE]

\* Plausible slip: the metres are added to the kilometres unconverted.
distanceInKmUnconverted(distance) == distance

\* distanceInKm := distance / 1000
distanceInKm(distance) == distance \div 1000

\* Variant that searches a second time.
AttemptsRetried(call) == <<call, call>>

\* The searches made for one pair: FindPath is called once, and its error
\* is returned without another call.
Attempts(call) == <<call>>

\* Lines 377-421: the search and what is built from its result.
RouteFrom(newFc, originCoords, destinationCoords, routeName) ==
    {LET call == [path |-> r.path, distance |-> r.distance,
                  err |-> r.err, origin |-> originCoords,
                  destination |-> destinationCoords, tolerance |-> Tolerance]
     IN  IF r.err
         THEN [err |-> "error finding path with golangGeojsonDijkstra",
               output |-> NoOutput, calls |-> Attempts(call), written |-> FALSE]
         ELSE LET path == r.path
                  lastWp == path[1]
                  firstWp == path[Len(path)]
                  distToFirstWp == CalcDistance(originCoords, firstWp)
                  distFromLastWp == CalcDistance(destinationCoords, lastWp)
                  totalDistance ==
                      distToFirstWp + distanceInKm(r.distance) + distFromLastWp
              IN  [err |-> "",
                   output |-> generateOutput(path, originCoords, destinationCoords,
                                  totalDistance, distToFirstWp, distFromLastWp,
                                  distanceInKm(r.distance), routeName),
                   calls |-> Attempts(call),
                   written |-> TRUE] :
     r \in FindPath(newFc, originCoords, destinationCoords, Tolerance)}

\* Variant without the nil checks.
IsNilUnchecked(file) == FALSE

\* fc == nil: the file's JSON text was null.
IsNil(file) == file.kind = "null"

\* calculatePassageInfo(originCoords, destinationCoords, routeName): the set
\* of its outcomes, each the error (or ""), the Output, the FindPath calls
\* made and whether temp/output.geojson was written.
calculatePassageInfo(originCoords, destinationCoords, routeName) ==
    LET splitAvailable == splitFile.kind # "missing"
        file == IF splitAvailable THEN splitFile ELSE rawFile
    IN  IF ~splitAvailable /\ rawFile.kind \in {"missing", "unreadable"}
        THEN {Failed("error reading marnet_densified_v2.geojson")}
        ELSE IF splitAvailable /\ splitFile.kind = "unreadable"
        THEN {Failed("error reading splitCoords.geojson")}
        ELSE IF file.kind = "badjson"
        THEN {Failed("error unmarshalling geojson data")}
        ELSE IF ~splitAvailable /\ IsNil(file)
        THEN {Failed("geojson data could not be parsed")}
        ELSE IF splitAvailable /\ IsNil(file)
        THEN {Failed("geojson data could not be parsed when split is available")}
        ELSE RouteFrom(IF splitAvailable THEN file.fc ELSE splitter(file.fc),
                       originCoords, destinationCoords, routeName)

\* The graph that is searched, given the dataset directory.
RoutingGraph ==
    IF splitFile.kind # "missing" THEN splitFile.fc ELSE splitter(rawFile.fc)

\* ------------------------------------------------------ port lookup

Port(name, lon, lat) == [Port |-> name, Longitude |-> lon, Latitude |-> lat]

\* The sample geography: four graph vertices on latitude 10, two on each
\* side of the antimeridian, and one between the two western ones.
W1 == <<(1795 * Deg) \div 10, 10 * Deg>>
WN == <<(1796 * Deg) \div 10, 10 * Deg>>
W2 == <<(1798 * Deg) \div 10, 10 * Deg>>
E2 == <<-((1798 * Deg) \div 10), 10 * Deg>>
E1 == <<-((1795 * Deg) \div 10), 10 * Deg>>

\* Raw coordinates a caller may send: on a vertex, one tolerance away from a
\* vertex, far from every vertex, and out of range.
W1Near == <<W1[1] + Tolerance, W1[2]>>
Origin00 == <<0, 0>>
BadLon == <<181 * Deg, 10 * Deg>>
BadLat == <<W1[1], 91 * Deg>>

RequestOrigins == {W1, W1Near, Origin00, BadLon, BadLat}
RequestDestinations == {W1, W2, E1, BadLon}

Lines(ls) == FeatureCollection([k \in 1..Len(ls) |-> NewLineFeature(ls[k])])

\* One line across the antimeridian.
CrossingData == Lines(<< <<W1, W2, E2, E1>> >>)
\* Two lines that do not meet: nothing connects west and east.
BrokenData == Lines(<< <<W1, W2>>, <<E2, E1>> >>)
\* A direct W1-W2 line beside a W1-WN-W2 line of the same length, and a
\* one-point line.
TwoWayData == Lines(<< <<W1, WN, W2>>, <<W1, W2>>, <<E2, E1>>, <<E1>> >>)

RawDatasets == {CrossingData, BrokenData, TwoWayData, NoFc}

RawFiles ==
    {File(k, NoFc) : k \in {"missing", "unreadable", "badjson", "null"}}
        \cup {File("ok", d) : d \in RawDatasets}

\* The pre-split file holds the output of an earlier splitter run.
SplitFiles ==
    {File(k, NoFc) : k \in {"missing", "unreadable", "badjson", "null"}}
        \cup {File("ok", splitter(d)) : d \in {CrossingData, BrokenData}}

\* PortData, as LoadPorts left it.
PortData ==
    << Port("Westport", W1Near[1], W1Near[2]),
       Port("Eastport", E1[1], E1[2]) >>

FromNames == {"Westport", "Atlantis", ""}
ToNames == {"Eastport", "Atlantis"}

RECURSIVE getPortCoordinatesFrom(_, _)
getPortCoordinatesFrom(portName, i) ==
    IF i > Len(PortData) THEN <<0, 0>>
    ELSE IF PortData[i].Port = portName
         THEN <<PortData[i].Longitude, PortData[i].Latitude>>
         ELSE getPortCoordinatesFrom(portName, i + 1)

\* getPortCoordinates(portName): (longitude, latitude), (0, 0) when unknown.
getPortCoordinates(portName) == getPortCoordinatesFrom(portName, 1)

\* ------------------------------------------------- request arguments

\* One argument of a call: present with the asserted type, or not.
Given(v) == [v |-> v, ok |-> TRUE]
NoString == [v |-> "", ok |-> FALSE]
NoNumber == [v |-> 0, ok |-> FALSE]

Arguments(isMap, oName, dName, oLat, oLon, dLat, dLon) ==
    [isMap |-> isMap,
     origin_port_name |-> oName, destination_port_name |-> dName,
     origin_latitude |-> oLat, origin_longitude |-> oLon,
     destination_latitude |-> dLat, destination_longitude |-> dLon]

ByNames(o, d) == Arguments(TRUE, o, d, NoNumber, NoNumber, NoNumber, NoNumber)

ByCoordinates(o, d) ==
    Arguments(TRUE, NoString, NoString,
              Given(o[2]), Given(o[1]), Given(d[2]), Given(d[1]))

McpArguments ==
    {ByNames(o, Given(d)) :
        o \in {Given(n) : n \in FromNames} \cup {NoString}, d \in ToNames}
      \cup {ByCoordinates(o, d) : o \in RequestOrigins, d \in RequestDestinations}
      \cup {Arguments(FALSE, NoString, NoString, NoNumber, NoNumber, NoNumber, NoNumber),
            \* a coordinate is missing
            Arguments(TRUE, NoString, NoString,
                      Given(W1[2]), Given(W1[1]), Given(E1[2]), NoNumber),
            \* names and coordinates together
            Arguments(TRUE, Given("Westport"), Given("Eastport"),
                      Given(W2[2]), Given(W2[1]), Given(W1[2]), Given(W1[1])),
            \* an empty name beside coordinates
            Arguments(TRUE, Given("Westport"), Given(""),
                      Given(W2[2]), Given(W2[1]), Given(W1[2]), Given(W1[1]))}

WaypointForms == {ByNames(Given(o), Given(d)) : o \in FromNames, d \in ToNames}

\* The arguments of calculate_short_sea_route calls: each name given or not.
ShortSeaRouteArguments ==
    {ByNames(o, d) : o \in {Given(n) : n \in FromNames} \cup {NoString},
                     d \in {Given(n) : n \in ToNames} \cup {NoString}}

NoRequest ==
    [entry |-> "none",
     args |-> Arguments(FALSE, NoString, NoString, NoNumber, NoNumber, NoNumber, NoNumber)]

Response(status, message, cause, output) ==
    [output |-> output, status |-> status, message |-> message, cause |-> cause]

NoResponse == Response("none", "", "", NoOutput)

Handled(resp, calls, written, output) ==
    [response |-> resp, output |-> output, calls |-> calls, written |-> written]

Rejected(message) == {Handled(Response("error", message, "", NoOutput), <<>>, FALSE, NoOutput)}

\* ------------------------------------------------------------ handlers

\* The tail shared by the callers of calculatePassageInfo: an error becomes
\* the caller's error response, an Output is returned as it is.
Answer(originCoords, destinationCoords, routeName, errorMessage) ==
    {IF r.err # ""
        THEN Handled(Response("error", errorMessage, r.err, NoOutput),
                     r.calls, r.written, r.output)
        ELSE Handled(Response("ok", "", "", r.output), r.calls, r.written, r.output) :
     r \in calculatePassageInfo(originCoords, destinationCoords, routeName)}

\* seaRouteToolHandler(ctx, request): the MCP tool calculateSeaRoute.  Its
\* two copies of the argument dispatch (lines 75-96 and 106-128) take the
\* same branch and assign the same values.
seaRouteToolHandler(args) ==
    LET originPortName == args.origin_port_name.v
        destPortName == args.destination_port_name.v
    IN  IF ~args.isMap
        THEN Rejected("Invalid arguments format")
        ELSE IF /\ args.origin_port_name.ok
                /\ args.destination_port_name.ok
                /\ originPortName # ""
                /\ destPortName # ""
        THEN LET o == getPortCoordinates(originPortName)
                 d == getPortCoordinates(destPortName)
             IN  IF o[1] = 0 /\ o[2] = 0
                 THEN Rejected("Origin port not found")
                 ELSE IF d[1] = 0 /\ d[2] = 0
                 THEN Rejected("Destination port not found")
                 ELSE Answer(o, d, <<originPortName, " to ", destPortName>>,
                             "Error during route calculation")
        ELSE IF /\ args.origin_latitude.ok
                /\ args.origin_longitude.ok
                /\ args.destination_latitude.ok
                /\ args.destination_longitude.ok
        THEN LET o == <<args.origin_longitude.v, args.origin_latitude.v>>
                 d == <<args.destination_longitude.v, args.destination_latitude.v>>
             IN  Answer(o, d, <<o, " to ", d>>, "Error during route calculation")
        ELSE Rejected("Insufficient parameters")

\* POST /waypoints: the form's fromPort and toPort (a missing key reads as
\* the empty string) are looked up and routed without a check.
waypointsHandler(form) ==
    LET fromPort == form.origin_port_name.v
        toPort == form.destination_port_name.v
    IN  Answer(getPortCoordinates(fromPort), getPortCoordinates(toPort),
               <<fromPort, " -> ", toPort>>, "Error calculating route")

\* HandleShortSeaRoute: the MCP tool calculate_short_sea_route.  Both names
\* are required strings; they are looked up and routed without a check, and
\* whatever calculatePassageInfo hands back as data is returned as text.
HandleShortSeaRoute(args) ==
    LET fromPort == args.origin_port_name.v
        toPort == args.destination_port_name.v
    IN  IF ~args.origin_port_name.ok
        THEN Rejected("required argument \"origin_port_name\" not found")
        ELSE IF ~args.destination_port_name.ok
        THEN Rejected("required argument \"destination_port_name\" not found")
        ELSE {Handled(Response("ok", "", "", r.output), r.calls, r.written, r.output) :
                r \in calculatePassageInfo(getPortCoordinates(fromPort),
                                           getPortCoordinates(toPort),
                                           <<fromPort, " -> ", toPort>>)}

\* ------------------------------------------- the /multi-routes service
\* Its handler is not among the sources; the page script below calls it.
\* It is modelled from the design: validate and normalise, search each
\* consecutive pair, stitch, then cut at the antimeridian.

\* Variant that reduces into [-180, 180).
NormalizeLongitudeClosedLeft(lon) ==
    ((lon + 180 * Deg) % (360 * Deg)) - 180 * Deg

\* Longitude normalisation into (-180, 180].
NormalizeLongitude(lon) ==
    ((lon + 180 * Deg - 1) % (360 * Deg)) - 180 * Deg + 1

Normalize(p) == <<NormalizeLongitude(p[1]), p[2]>>

\* Variant that also moves a destination exactly 180 degrees away.
AdjustDestinationEager(origin, destination) ==
    IF destination[1] - origin[1] >= 180 * Deg
    THEN <<destination[1] - 360 * Deg, destination[2]>>
    ELSE IF destination[1] - origin[1] <= -(180 * Deg)
         THEN <<destination[1] + 360 * Deg, destination[2]>>
         ELSE destination

\* Antimeridian pair adjustment: the destination longitude used for the
\* search is moved by 360 when the raw difference exceeds 180.
AdjustDestination(origin, destination) ==
    IF destination[1] - origin[1] > 180 * Deg
    THEN <<destination[1] - 360 * Deg, destination[2]>>
    ELSE IF destination[1] - origin[1] < -(180 * Deg)
         THEN <<destination[1] + 360 * Deg, destination[2]>>
         ELSE destination

\* The adapter: the primitive's path reversed, origin end first.
findPath(graph, origin, destination, tolerance) ==
    {[path |-> Reverse(r.path), distance |-> r.distance, err |-> r.err,
      call |-> [path |-> r.path, distance |-> r.distance,
                err |-> r.err, origin |-> origin,
                destination |-> destination, tolerance |-> tolerance]] :
        r \in FindPath(graph, origin, destination, tolerance)}

\* One waypoint pair: the points it adds between its two waypoints, its
\* kilometres and whether it is the direct-line fallback.
RouteLeg(graph, origin, destination) ==
    {IF r.err
        THEN [call |-> r.call, points |-> <<>>,
              km |-> CalcDistance(origin, destination), fallback |-> TRUE]
        ELSE [call |-> r.call, points |-> r.path,
              km |-> CalcDistance(origin, r.path[1]) + (r.distance \div 1000)
                       + CalcDistance(r.path[Len(r.path)], destination),
              fallback |-> FALSE] :
     r \in findPath(graph, origin, AdjustDestination(origin, destination), Tolerance)}

NoRoute == [coordinates |-> <<>>, distance |-> 0, calls |-> <<>>, legs |-> <<>>]

\* Variant that repeats the origin of every pair, not only of the first.
SeamOriginRepeated(waypoints, i) == <<waypoints[i]>>

\* What a pair puts before its path: the raw origin, for the first pair only.
SeamOrigin(waypoints, i) == IF i = 1 THEN <<waypoints[1]>> ELSE <<>>

\* Variant that closes a pair with the destination as the search saw it.
SeamDestinationAdjusted(waypoints, i) ==
    <<AdjustDestination(waypoints[i], waypoints[i + 1])>>

\* What a pair puts after its path: the raw destination.
SeamDestination(waypoints, i) == <<waypoints[i + 1]>>

RECURSIVE StitchFrom(_, _, _, _)
StitchFrom(graph, waypoints, i, route) ==
    IF i >= Len(waypoints)
    THEN {route}
    ELSE UNION {
           StitchFrom(graph, waypoints, i + 1,
               [coordinates |-> route.coordinates \o SeamOrigin(waypoints, i)
                                  \o leg.points \o SeamDestination(waypoints, i),
                distance |-> route.distance + leg.km,
                calls |-> route.calls \o Attempts(leg.call),
                legs |-> Append(route.legs,
                                [points |-> leg.points, fallback |-> leg.fallback])]) :
           leg \in RouteLeg(graph, waypoints[i], waypoints[i + 1])}

\* composeRoute(graph, waypoints): the outcomes, each an error kind (or "")
\* and the StitchedRoute.
composeRoute(graph, waypoints) ==
    IF Len(waypoints) < 2
    THEN {[err |-> "InsufficientWaypoints", route |-> NoRoute]}
    ELSE IF \E i \in 1..Len(waypoints) :
               ~(/\ -180 * Deg <= waypoints[i][1] /\ waypoints[i][1] <= 180 * Deg
                 /\ -90 * Deg <= waypoints[i][2] /\ waypoints[i][2] <= 90 * Deg)
    THEN {[err |-> "InvalidCoordinate", route |-> NoRoute]}
    ELSE {[err |-> "", route |-> r] :
            r \in StitchFrom(graph, [i \in 1..Len(waypoints) |-> Normalize(waypoints[i])],
                             1, NoRoute)}

\* The walk of the Segmenter: a new segment starts where the longitude
\* jumps by more than 180 degrees.
RECURSIVE CutFrom(_, _, _)
CutFrom(coordinates, i, current) ==
    IF i > Len(coordinates)
    THEN <<current>>
    ELSE IF Abs(coordinates[i][1] - coordinates[i - 1][1]) > 180 * Deg
         THEN <<current>> \o CutFrom(coordinates, i + 1, <<coordinates[i]>>)
         ELSE CutFrom(coordinates, i + 1, Append(current, coordinates[i]))

\* Variant that keeps one-point segments.
LongEnoughOffByOne(s) == Len(s) >= 1

LongEnough(s) == Len(s) >= 2

\* Segments with fewer than 2 points are dropped.
KeepSegments(segments) == SelectSeq(segments, LongEnough)

\* segment(route): the RouteGeometry's segments.
segment(coordinates) ==
    IF coordinates = <<>>
    THEN <<>>
    ELSE KeepSegments(CutFrom(coordinates, 2, <<coordinates[1]>>))

\* The geometry object of the response: a single line for one segment, a
\* multi-line for more; for none the design names neither.
RouteGeometry(segments) ==
    IF Len(segments) = 1
    THEN {[type |-> "LineString", coordinates |-> segments[1]]}
    ELSE IF Len(segments) > 1
    THEN {[type |-> "MultiLineString", coordinates |-> segments]}
    ELSE {[type |-> "LineString", coordinates |-> <<>>],
          [type |-> "MultiLineString", coordinates |-> <<>>]}

NoGeometry == [type |-> "", coordinates |-> <<>>]

RouteData(error, geometry, totalDistance, routeCount, fallback) ==
    [geometry |-> geometry,
     properties |-> [fallback |-> fallback, total_distance |-> totalDistance,
                     route_count |-> routeCount],
     error |-> error]

NoData == RouteData("", NoGeometry, 0, 0, <<>>)

\* POST /multi-routes: the replies to a body of coordinates, each with the
\* StitchedRoute behind it.
multiRoutes(graph, coordinates) ==
    UNION {
      IF c.err # ""
      THEN {[route |-> NoRoute, data |-> RouteData(c.err, NoGeometry, 0, 0, <<>>)]}
      ELSE {[route |-> c.route,
             data |-> RouteData("", g, c.route.distance, Len(c.route.legs),
                                [k \in 1..Len(c.route.legs) |-> c.route.legs[k].fallback])] :
              g \in RouteGeometry(segment(c.route.coordinates))} :
      c \in composeRoute(graph, coordinates)}

\* ------------------------------------------------- the page script

\* One element of the parsed coordinates array: an object with numeric lon
\* and lat, or anything else.
Coordinate(p) == [lat |-> p[2], lon |-> p[1], wellFormed |-> TRUE]
NotACoordinate == [lat |-> 0, lon |-> 0, wellFormed |-> FALSE]

\* The textarea's content: empty, not JSON, JSON that is no array, or an
\* array of elements.
TextInput(kind, items) == [kind |-> kind, items |-> items]

NoAlert == <<>>

\* The first position (1-based, as the alert prints it) that fails the
\* validation loop, with the alert it raises; <<>> when all pass.
RECURSIVE ValidateFrom(_, _)
ValidateFrom(coordinates, i) ==
    IF i > Len(coordinates) THEN NoAlert
    ELSE IF ~coordinates[i].wellFormed
         THEN <<"Invalid coordinate format at position", i>>
         ELSE IF \/ coordinates[i].lat < -90 * Deg \/ coordinates[i].lat > 90 * Deg
                 \/ coordinates[i].lon < -180 * Deg \/ coordinates[i].lon > 180 * Deg
              THEN <<"Invalid coordinate values at position", i>>
              ELSE ValidateFrom(coordinates, i + 1)

\* Variant whose length check lets a single coordinate through.
TooFewOffByOne(text) == text.kind # "array" \/ Len(text.items) < 1

\* !Array.isArray(coordinates) || coordinates.length < 2
TooFew(text) == text.kind # "array" \/ Len(text.items) < 2

\* The click handler of calculate-multi-route, up to the fetch: the alert
\* it raises, or the body it posts.
clickCalculate(text) ==
    IF text.kind = "empty"
    THEN [alert |-> <<"Please enter coordinates in JSON format">>, post |-> FALSE]
    ELSE IF text.kind = "badjson"
    THEN [alert |-> <<"Invalid JSON format. Please check your input.">>, post |-> FALSE]
    ELSE IF TooFew(text)
    THEN [alert |-> <<"Please provide at least 2 coordinates">>, post |-> FALSE]
    ELSE IF ValidateFrom(text.items, 1) # NoAlert
    THEN [alert |-> ValidateFrom(text.items, 1), post |-> FALSE]
    ELSE [alert |-> NoAlert, post |-> TRUE]

\* What the map shows: clearMap leaves NoDisplay.
NoDisplay ==
    [totalDistance |-> 0, routeCount |-> 0,
     routeLayer |-> <<>>, hasRouteLayer |-> FALSE,
     markers |-> <<>>, hasMarkersLayer |-> FALSE,
     currentRouteGeoJSON |-> NoData, hasRouteGeoJSON |-> FALSE,
     resultInfo |-> FALSE]

\* coord => [coord[1], coord[0]]
LatLng(coord) == <<coord[2], coord[1]>>

LatLngs(coords) == [i \in 1..Len(coords) |-> LatLng(coords[i])]

RECURSIVE Flat(_)
Flat(segments) ==
    IF segments = <<>> THEN <<>> ELSE Head(segments) \o Flat(Tail(segments))

NonEmpty(s) == Len(s) > 0

\* displayMultiRoute(routeData): what the map shows afterwards.
displayMultiRoute(routeData) ==
    IF routeData.geometry = NoGeometry
    THEN NoDisplay
    ELSE IF routeData.geometry.type \notin {"LineString", "MultiLineString"}
    THEN NoDisplay
    ELSE LET routeSegments ==
                 IF routeData.geometry.type = "LineString"
                 THEN <<LatLngs(routeData.geometry.coordinates)>>
                 ELSE [k \in 1..Len(routeData.geometry.coordinates) |->
                          LatLngs(routeData.geometry.coordinates[k])]
             allRouteCoords ==
                 IF routeData.geometry.type = "LineString"
                 THEN LatLngs(routeData.geometry.coordinates)
                 ELSE Flat(routeSegments)
         IN  [totalDistance |-> routeData.properties.total_distance,
              routeCount |-> routeData.properties.route_count,
              routeLayer |-> SelectSeq(routeSegments, NonEmpty),
              hasRouteLayer |-> TRUE,
              markers |-> IF Len(allRouteCoords) > 0
                          THEN <<allRouteCoords[1], allRouteCoords[Len(allRouteCoords)]>>
                          ELSE <<>>,
              hasMarkersLayer |-> TRUE,
              currentRouteGeoJSON |-> routeData,
              hasRouteGeoJSON |-> TRUE,
              resultInfo |-> TRUE]

\* ------------------------------------------- longitude arithmetic alone

\* What is put in: a longitude to normalise, or a pair to adjust.
LonInput(kind, lon, origin, destination) ==
    [kind |-> kind, origin |-> origin, destination |-> destination, lon |-> lon]

NoLonInput == LonInput("none", 0, <<0, 0>>, <<0, 0>>)

\* What comes out: the normalised longitude, that value normalised again,
\* and the origin and destination handed to the search for a pair.
LonOutput(normalized, renormalized, origin, destination) ==
    [origin |-> origin, destination |-> destination,
     normalized |-> normalized, renormalized |-> renormalized]

NoLonOutput == LonOutput(0, 0, <<0, 0>>, <<0, 0>>)

\* ---------------------------------------------- requests side by side

\* The requests in flight at once.
Requests == {1, 2}

\* One request inside calculatePassageInfo: where it is, its arguments, its
\* local variables (splitAvailable, the file read, newFc, FindPath's
\* result) and the error and Output it returns.
Proc(pc, origin, destination, splitAvailable, file, newFc, found, err, output) ==
    [err |-> err, found |-> found, output |-> output,
     newFc |-> newFc, originCoords |-> origin, destinationCoords |-> destination,
     file |-> file, splitAvailable |-> splitAvailable, pc |-> pc]

NotStarted ==
    Proc("idle", <<0, 0>>, <<0, 0>>, FALSE, File("missing", NoFc), NoFc,
         PathError, "", NoOutput)

\* One construction of a routing graph: who made it and whether the raw
\* dataset was decomposed for it (or the pre-split file was parsed).
Build(p, decomposed) == [request |-> p, decomposed |-> decomposed]

\* ------------------------------------------------------ idle parts

SplitIdle ==
    /\ rawFc = NoFc
    /\ splitFc = NoFc
    /\ resplitFc = NoFc
    /\ splitPc = "idle"

ServerIdle ==
    /\ splitFile = File("missing", NoFc)
    /\ rawFile = File("missing", NoFc)
    /\ outputFile = NoOutput
    /\ request = NoRequest
    /\ response = NoResponse
    /\ searches = <<>>

PageIdle ==
    /\ input = TextInput("empty", <<>>)
    /\ alert = NoAlert
    /\ spinning = FALSE
    /\ display = NoDisplay
    /\ stitched = NoRoute
    /\ pagePc = "idle"

LonIdle ==
    /\ lonIn = NoLonInput
    /\ lonOut = NoLonOutput
    /\ lonPc = "idle"

ConcIdle ==
    /\ procs = [p \in Requests |-> NotStarted]
    /\ builds = <<>>
    /\ writes = <<>>

\* ------------------------------------------- SplitSpec: splitter alone

MaxLines == 2
MaxLineLen == 3

\* Two distinct positions are enough to tell every pair and order apart.
SplitPoints == {<<10 * Deg, 50 * Deg>>, <<11 * Deg, 51 * Deg>>}

SplitLines == SeqsUpTo(SplitPoints, MaxLineLen)

SplitInputs ==
    {FeatureCollection([k \in 1..Len(ls) |-> NewLineFeature(ls[k])]) :
        ls \in SeqsUpTo(SplitLines, MaxLines)}

SplitInit ==
    /\ rawFc \in SplitInputs
    /\ splitFc = NoFc
    /\ resplitFc = NoFc
    /\ splitPc = "start"
    /\ ServerIdle
    /\ PageIdle
    /\ LonIdle
    /\ ConcIdle

RunSplitter ==
    /\ splitPc = "start"
    /\ splitFc' = splitter(rawFc)
    /\ splitPc' = "split"
    /\ UNCHANGED <<rawFc, resplitFc>>
    /\ UNCHANGED serverVars
    /\ UNCHANGED pageVars
    /\ UNCHANGED lonVars
    /\ UNCHANGED concVars

RunSplitterAgain ==
    /\ splitPc = "split"
    /\ resplitFc' = splitter(splitFc)
    /\ splitPc' = "resplit"
    /\ UNCHANGED <<rawFc, splitFc>>
    /\ UNCHANGED serverVars
    /\ UNCHANGED pageVars
    /\ UNCHANGED lonVars
    /\ UNCHANGED concVars

SplitNext == RunSplitter \/ RunSplitterAgain

SplitSpec == SplitInit /\ [][SplitNext]_vars

\* ---------------------------------------------- Spec: the route server

Serve(entry, args, r) ==
    /\ request' = [entry |-> entry, args |-> args]
    /\ response' = r.response
    /\ searches' = r.calls
    /\ outputFile' = IF r.written THEN r.output ELSE outputFile
    /\ UNCHANGED <<splitFile, rawFile>>
    /\ UNCHANGED splitVars
    /\ UNCHANGED pageVars
    /\ UNCHANGED lonVars
    /\ UNCHANGED concVars

CalculateSeaRoute ==
    \E args \in McpArguments : \E r \in seaRouteToolHandler(args) :
        Serve("calculateSeaRoute", args, r)

PostWaypoints ==
    \E form \in WaypointForms : \E r \in waypointsHandler(form) :
        Serve("/waypoints", form, r)

\* The dataset directory at start-up: every raw file without a pre-split
\* file, and every pre-split file beside a raw file that is missing or good.
DatasetDirs ==
    {<<sf, rf>> \in SplitFiles \X RawFiles :
        \/ sf.kind = "missing"
        \/ rf \in {File("missing", NoFc), File("ok", CrossingData)}}

Init ==
    /\ \E dir \in DatasetDirs :
          /\ splitFile = dir[1]
          /\ rawFile = dir[2]
    /\ outputFile = NoOutput
    /\ request = NoRequest
    /\ response = NoResponse
    /\ searches = <<>>
    /\ SplitIdle
    /\ PageIdle
    /\ LonIdle
    /\ ConcIdle

Next == CalculateSeaRoute \/ PostWaypoints

Spec == Init /\ [][Next]_vars

\* ------------------- PortSpec: the entry points that resolve port names

CalculateShortSeaRoute ==
    \E args \in ShortSeaRouteArguments : \E r \in HandleShortSeaRoute(args) :
        Serve("calculate_short_sea_route", args, r)

PortNext == CalculateSeaRoute \/ PostWaypoints \/ CalculateShortSeaRoute

PortSpec == Init /\ [][PortNext]_vars

\* ------------------------------------------------------------- UISpec

MaxWaypoints == 3

PagePoints == {W1, E1, Origin00}

TextInputs ==
    {TextInput(k, <<>>) : k \in {"empty", "badjson", "notarray"}}
      \cup {TextInput("array", items) :
              items \in SeqsUpTo({Coordinate(p) : p \in PagePoints}, MaxWaypoints)}
      \cup {TextInput("array", <<Coordinate(W1), NotACoordinate>>),
            TextInput("array", <<NotACoordinate>>),
            TextInput("array", <<Coordinate(BadLon)>>),
            TextInput("array", <<Coordinate(W1), Coordinate(BadLon)>>),
            TextInput("array", <<Coordinate(BadLat), Coordinate(W1), Coordinate(E1)>>)}

Positions(items) == [i \in 1..Len(items) |-> <<items[i].lon, items[i].lat>>]

PageInit ==
    /\ splitFile = File("missing", NoFc)
    /\ rawFile \in {File("ok", d) : d \in {CrossingData, BrokenData, TwoWayData}}
    /\ outputFile = NoOutput
    /\ request = NoRequest
    /\ response = NoData
    /\ searches = <<>>
    /\ PageIdle
    /\ SplitIdle
    /\ LonIdle
    /\ ConcIdle

\* A click on calculate-multi-route with some text in the textarea.
ClickCalculate ==
    /\ pagePc = "idle"
    /\ \E text \in TextInputs :
         LET c == clickCalculate(text)
         IN  /\ input' = text
             /\ alert' = c.alert
             /\ IF c.post
                THEN /\ spinning' = TRUE
                     /\ request' = [coordinates |-> Positions(text.items),
                                    entry |-> "/multi-routes"]
                     /\ pagePc' = "posted"
                ELSE UNCHANGED <<spinning, request, pagePc>>
    /\ UNCHANGED <<display, response, searches, stitched, splitFile, rawFile, outputFile>>
    /\ UNCHANGED splitVars
    /\ UNCHANGED lonVars
    /\ UNCHANGED concVars

\* The service answers the posted body.
ServeMultiRoutes ==
    /\ pagePc = "posted"
    /\ \E r \in multiRoutes(RoutingGraph, request.coordinates) :
         /\ response' = r.data
         /\ stitched' = r.route
         /\ searches' = r.route.calls
    /\ pagePc' = "answered"
    /\ UNCHANGED <<input, alert, spinning, display, request, splitFile, rawFile, outputFile>>
    /\ UNCHANGED splitVars
    /\ UNCHANGED lonVars
    /\ UNCHANGED concVars

\* The fetch's then-callback.
FetchThen ==
    /\ pagePc = "answered"
    /\ spinning' = FALSE
    /\ IF response.error # ""
       THEN /\ alert' = <<"Error: ", response.error>>
            /\ UNCHANGED display
       ELSE /\ alert' = NoAlert
            /\ display' = displayMultiRoute(response)
    /\ pagePc' = "idle"
    /\ UNCHANGED <<input, request, response, searches, stitched, splitFile, rawFile, outputFile>>
    /\ UNCHANGED splitVars
    /\ UNCHANGED lonVars
    /\ UNCHANGED concVars

\* The click handler of clear-button.
ClickClear ==
    /\ pagePc = "idle"
    /\ display' = NoDisplay
    /\ input' = TextInput("empty", <<>>)
    /\ alert' = NoAlert
    /\ UNCHANGED <<spinning, pagePc, request, response, searches, stitched,
                   splitFile, rawFile, outputFile>>
    /\ UNCHANGED splitVars
    /\ UNCHANGED lonVars
    /\ UNCHANGED concVars

PageNext == ClickCalculate \/ ServeMultiRoutes \/ FetchThen \/ ClickClear

UISpec == PageInit /\ [][PageNext]_vars

\* ------------------------------------ LonSpec: longitude arithmetic alone

MaxQuarter == 6

\* Longitudes at every quarter turn up to MaxQuarter quarters either way,
\* and one coordinate unit to each side of them.
LonSamples ==
    {k * 90 * Deg + e : k \in (-MaxQuarter)..MaxQuarter, e \in {-1, 0, 1}}

\* Positions whose longitude is in [-180, 180].
PairPositions ==
    {<<lon, lat>> : lon \in {x \in LonSamples : -180 * Deg <= x /\ x <= 180 * Deg},
                    lat \in {10 * Deg, -90 * Deg}}

LonInputs ==
    {LonInput("longitude", x, <<0, 0>>, <<0, 0>>) : x \in LonSamples}
      \cup {LonInput("pair", 0, o, d) : o \in PairPositions, d \in PairPositions}

LonInit ==
    /\ lonIn \in LonInputs
    /\ lonOut = NoLonOutput
    /\ lonPc = "start"
    /\ SplitIdle
    /\ ServerIdle
    /\ PageIdle
    /\ ConcIdle

RunNormalize ==
    /\ lonPc = "start"
    /\ lonIn.kind = "longitude"
    /\ lonOut' = [lonOut EXCEPT !.normalized = NormalizeLongitude(lonIn.lon)]
    /\ lonPc' = "normalized"
    /\ UNCHANGED <<lonIn, splitVars, serverVars, pageVars, concVars>>

RunNormalizeAgain ==
    /\ lonPc = "normalized"
    /\ lonOut' = [lonOut EXCEPT !.renormalized = NormalizeLongitude(lonOut.normalized)]
    /\ lonPc' = "renormalized"
    /\ UNCHANGED <<lonIn, splitVars, serverVars, pageVars, concVars>>

\* The origin and destination a pair's search is called with.
RunAdjust ==
    /\ lonPc = "start"
    /\ lonIn.kind = "pair"
    /\ lonOut' = [lonOut EXCEPT
                     !.origin = lonIn.origin,
                     !.destination = AdjustDestination(lonIn.origin, lonIn.destination)]
    /\ lonPc' = "adjusted"
    /\ UNCHANGED <<lonIn, splitVars, serverVars, pageVars, concVars>>

LonNext == RunNormalize \/ RunNormalizeAgain \/ RunAdjust

LonSpec == LonInit /\ [][LonNext]_vars

\* ----------------------------------- ConcSpec: requests side by side
\* Each handler runs in its own goroutine; the steps are the file and
\* library calls of calculatePassageInfo, generateOutput and writeOutput.

ConcOrigins == {W1, Origin00}
ConcDestinations == {W2, E1}

ConcDirs ==
    {<<sf, rf>> \in SplitFiles \X RawFiles :
        /\ sf.kind \in {"missing", "ok", "badjson"}
        /\ \/ rf = File("ok", CrossingData)
           \/ sf.kind = "missing" /\ rf \in {File("missing", NoFc), File("null", NoFc)}}

ConcInit ==
    /\ \E dir \in ConcDirs :
          /\ splitFile = dir[1]
          /\ rawFile = dir[2]
    /\ outputFile = NoOutput
    /\ request = NoRequest
    /\ response = NoResponse
    /\ searches = <<>>
    /\ SplitIdle
    /\ PageIdle
    /\ LonIdle
    /\ ConcIdle

Return(p, msg) == [procs EXCEPT ![p].pc = "done", ![p].err = msg]

ConcFrame == UNCHANGED <<splitFile, rawFile, request, response, searches,
                         splitVars, pageVars, lonVars>>

\* A handler calls calculatePassageInfo(originCoords, destinationCoords, ...).
Call(p) ==
    /\ procs[p].pc = "idle"
    /\ \E o \in ConcOrigins, d \in ConcDestinations :
          procs' = [procs EXCEPT ![p].pc = "stat",
                                 ![p].originCoords = o,
                                 ![p].destinationCoords = d]
    /\ UNCHANGED <<builds, writes, outputFile>>
    /\ ConcFrame

\* os.Stat of splitCoords.geojson and os.ReadFile of the file chosen.
ReadDataset(p) ==
    /\ procs[p].pc = "stat"
    /\ LET splitAvailable == splitFile.kind # "missing"
           file == IF splitAvailable THEN splitFile ELSE rawFile
       IN  procs' =
             IF ~splitAvailable /\ file.kind \in {"missing", "unreadable"}
             THEN Return(p, "error reading marnet_densified_v2.geojson")
             ELSE IF splitAvailable /\ file.kind = "unreadable"
             THEN Return(p, "error reading splitCoords.geojson")
             ELSE [procs EXCEPT ![p].pc = "read",
                                ![p].splitAvailable = splitAvailable,
                                ![p].file = file]
    /\ UNCHANGED <<builds, writes, outputFile>>
    /\ ConcFrame

\* json.Unmarshal, the nil checks, and newFc = splitter(*fc) or *fc.
BuildGraph(p) ==
    /\ procs[p].pc = "read"
    /\ LET file == procs[p].file
           splitAvailable == procs[p].splitAvailable
       IN  IF file.kind = "badjson"
           THEN /\ procs' = Return(p, "error unmarshalling geojson data")
                /\ UNCHANGED builds
           ELSE IF IsNil(file)
           THEN /\ procs' = Return(p,
                     IF splitAvailable
                     THEN "geojson data could not be parsed when split is available"
                     ELSE "geojson data could not be parsed")
                /\ UNCHANGED builds
           ELSE /\ procs' = [procs EXCEPT
                               ![p].pc = "graph",
                               ![p].newFc = IF splitAvailable THEN file.fc
                                            ELSE splitter(file.fc)]
                /\ builds' = Append(builds, Build(p, ~splitAvailable))
    /\ UNCHANGED <<writes, outputFile>>
    /\ ConcFrame

\* (&newFc).FindPath(originCoords, destinationCoords, 0.00001)
Search(p) ==
    /\ procs[p].pc = "graph"
    /\ \E r \in FindPath(procs[p].newFc, procs[p].originCoords,
                          procs[p].destinationCoords, Tolerance) :
          procs' = IF r.err
                   THEN Return(p, "error finding path with golangGeojsonDijkstra")
                   ELSE [procs EXCEPT ![p].pc = "searched", ![p].found = r]
    /\ UNCHANGED <<builds, writes, outputFile>>
    /\ ConcFrame

\* The Output built from the path a request found.
OutputOf(proc) ==
    LET path == proc.found.path
        distToFirstWp == CalcDistance(proc.originCoords, path[Len(path)])
        distFromLastWp == CalcDistance(proc.destinationCoords, path[1])
    IN  generateOutput(path, proc.originCoords, proc.destinationCoords,
            distToFirstWp + distanceInKm(proc.found.distance) + distFromLastWp,
            distToFirstWp, distFromLastWp, distanceInKm(proc.found.distance),
            <<proc.originCoords, " to ", proc.destinationCoords>>)

\* generateOutput up to os.Create("temp/output.geojson"), which empties
\* the file.
CreateOutput(p) ==
    /\ procs[p].pc = "searched"
    /\ procs' = [procs EXCEPT ![p].pc = "created", ![p].output = OutputOf(procs[p])]
    /\ outputFile' = NoOutput
    /\ UNCHANGED <<builds, writes>>
    /\ ConcFrame

\* file.Write(jsonOutput) and the deferred Close.
WriteOutput(p) ==
    /\ procs[p].pc = "created"
    /\ outputFile' = procs[p].output
    /\ writes' = Append(writes, p)
    /\ procs' = [procs EXCEPT ![p].pc = "written"]
    /\ UNCHANGED builds
    /\ ConcFrame

\* return output, nil
ReturnOutput(p) ==
    /\ procs[p].pc = "written"
    /\ procs' = [procs EXCEPT ![p].pc = "done"]
    /\ UNCHANGED <<builds, writes, outputFile>>
    /\ ConcFrame

ConcNext ==
    \E p \in Requests :
        \/ Call(p)
        \/ ReadDataset(p)
        \/ BuildGraph(p)
        \/ Search(p)
        \/ CreateOutput(p)
        \/ WriteOutput(p)
        \/ ReturnOutput(p)

ConcSpec == ConcInit /\ [][ConcNext]_vars

\* ------------------------------------------------------------ claims

Coords(fc, k) == fc.features[k].geometry.coordinates

EdgeCount(line) == IF Len(line) >= 2 THEN Len(line) - 1 ELSE 0

\* Number of edges owed by the lines before line k.
RECURSIVE EdgesBefore(_, _)
EdgesBefore(fc, k) ==
    IF k <= 1 THEN 0
    ELSE EdgesBefore(fc, k - 1) + EdgeCount(Coords(fc, k - 1))

\* C1: splitter's output holds, for each input line with n >= 2 points,
\* exactly the n-1 edges (p[i], p[i+1]) in line order, nothing for a line
\* with fewer than 2 points; so it has sum(max(n-1, 0)) edges, each of
\* exactly 2 points.
C1_SplitterEdges ==
    splitPc # "start" =>
        /\ Len(splitFc.features) = EdgesBefore(rawFc, Len(rawFc.features) + 1)
        /\ \A k \in 1..Len(rawFc.features) :
             \A i \in 1..EdgeCount(Coords(rawFc, k)) :
                Coords(splitFc, EdgesBefore(rawFc, k) + i)
                    = <<Coords(rawFc, k)[i], Coords(rawFc, k)[i + 1]>>
        /\ \A e \in 1..Len(splitFc.features) : Len(Coords(splitFc, e)) = 2

C1_Witness ==
    /\ splitPc = "split"
    /\ Len(rawFc.features) = 2
    /\ Len(Coords(rawFc, 1)) = 1
    /\ Len(Coords(rawFc, 2)) = 3
    /\ Coords(rawFc, 2)[1] # Coords(rawFc, 2)[2]
    /\ Len(splitFc.features) = 2

PairSet(fc) == {Coords(fc, k) : k \in 1..Len(fc.features)}

AllTwoPoint(fc) == \A k \in 1..Len(fc.features) : Len(Coords(fc, k)) = 2

\* C2: on a dataset whose lines all have exactly 2 points splitter returns
\* the input lines as a set of point pairs, and splitter(splitter(x)) equals
\* splitter(x) for every x.
C2_SplitterIdempotent ==
    /\ (splitPc # "start" /\ AllTwoPoint(rawFc)) => PairSet(splitFc) = PairSet(rawFc)
    /\ splitPc = "resplit" => resplitFc = splitFc

C2_Witness ==
    /\ splitPc = "resplit"
    /\ AllTwoPoint(rawFc)
    /\ Len(rawFc.features) = 2
    /\ Coords(rawFc, 1) # Coords(rawFc, 2)
    /\ Coords(rawFc, 1)[1] # Coords(rawFc, 1)[2]


\* ------------------------------------------- claims about the server

Answered == response.status = "ok"

Properties == response.output.features[1].properties

Geometry == response.output.features[1].geometry

\* C3: on a successful search the positions handed back and placed in the
\* output geometry are the reverse of the primitive's destination-first
\* sequence: the first is the one at the origin, the last the one at the
\* destination.
C3_PathReversed ==
    Answered =>
        /\ Geometry.coordinates = Reverse(searches[1].path)
        /\ PointGap(searches[1].origin, Geometry.coordinates[1]) <= Tolerance
        /\ PointGap(searches[1].destination,
                    Geometry.coordinates[Len(Geometry.coordinates)]) <= Tolerance

C5_FallbackOnPathFailure ==
    (searches # <<>> /\ searches[1].err) =>
        /\ Answered
        /\ Geometry.coordinates = <<searches[1].origin, searches[1].destination>>
        /\ Properties.TotalDist
             = PointGap(searches[1].origin, searches[1].destination)

\* Longitude in [-180, 180] and latitude in [-90, 90].
ValidPosition(p) ==
    /\ -180 * Deg <= p[1] /\ p[1] <= 180 * Deg
    /\ -90 * Deg <= p[2] /\ p[2] <= 90 * Deg

\* The request is routed by the raw coordinates it carries.
ByRawCoordinates ==
    /\ request.entry = "calculateSeaRoute"
    /\ request.args.isMap
    /\ request.args.origin_port_name = NoString
    /\ request.args.destination_port_name = NoString
    /\ request.args.origin_latitude.ok /\ request.args.origin_longitude.ok
    /\ request.args.destination_latitude.ok /\ request.args.destination_longitude.ok

RawOrigin == <<request.args.origin_longitude.v, request.args.origin_latitude.v>>

RawDestination ==
    <<request.args.destination_longitude.v, request.args.destination_latitude.v>>

\* C7: a request carrying a position out of range is rejected with
\* InvalidCoordinate before any search is made and yields no route, at
\* every entry point that takes raw coordinates.
C7_InvalidCoordinateRejected ==
    (ByRawCoordinates /\ ~(ValidPosition(RawOrigin) /\ ValidPosition(RawDestination))) =>
        /\ response.status = "error"
        /\ response.message = "InvalidCoordinate"
        /\ response.output = NoOutput
        /\ searches = <<>>


\* -------------------------------- claims about the page and its service

TooFewInput == input.kind = "array" /\ Len(input.items) < 2

\* C6: a route request with fewer than 2 waypoints fails with the
\* insufficient-waypoints error, makes no path search and produces no route
\* coordinates or distance: the step that takes it posts nothing and leaves
\* the service's results and the map as they were.
C6_TooFewWaypoints ==
    [][TooFewInput' =>
          /\ alert' = <<"Please provide at least 2 coordinates">>
          /\ pagePc' = "idle"
          /\ UNCHANGED <<request, response, searches, stitched, display, spinning>>]_vars

C6_Witness ==
    /\ TooFewInput
    /\ Len(input.items) = 1
    /\ alert = <<"Please provide at least 2 coordinates">>
    /\ display.hasRouteLayer
    /\ searches # <<>>

Routed == pagePc = "answered" /\ response.error = ""

\* The points the adapter returned for pair i: the primitive's sequence
\* reversed, nothing for a failed search.
LegPath(i) == IF searches[i].err THEN <<>> ELSE Reverse(searches[i].path)

\* [w1] ++ path_1 ++ [w2] ++ ... ++ path_(n-1) ++ [wn], from pair i on.
RECURSIVE Interleaved(_, _)
Interleaved(waypoints, i) ==
    IF i >= Len(waypoints) THEN <<>>
    ELSE LegPath(i) \o <<waypoints[i + 1]>> \o Interleaved(waypoints, i + 1)

RECURSIVE LegPoints(_)
LegPoints(i) == IF i < 1 THEN 0 ELSE Len(LegPath(i)) + 1 + LegPoints(i - 1)

SegmentsOf(geometry) ==
    IF geometry.type = "LineString" THEN <<geometry.coordinates>>
    ELSE geometry.coordinates

\* C9: the points of all segments, concatenated in order, are the route's
\* coordinates exactly, also when a cut leaves a segment of fewer than 2
\* points.
C9_SegmentsRoundTrip ==
    Routed => Flat(SegmentsOf(response.geometry)) = stitched.coordinates

Jumps(coordinates) ==
    \E i \in 1..(Len(coordinates) - 1) :
        Abs(coordinates[i + 1][1] - coordinates[i][1]) > 180 * Deg

\* C11: the output geometry is a LineString exactly when the route has no
\* longitude jump of more than 180 degrees (one segment) and a
\* MultiLineString when it has one (more than one segment); a route with
\* such a jump is never emitted as a single LineString.
C11_GeometryType ==
    Answered =>
        /\ Geometry.type \in {"LineString", "MultiLineString"}
        /\ (Geometry.type = "LineString") <=> ~Jumps(Geometry.coordinates)

\* ------------------------------ claims about the longitude arithmetic

\* C12: for origin and destination longitudes in [-180, 180], a destination
\* more than 180 away from the origin is searched for at dest + 360 or
\* dest - 360, whichever is less than 180 from the origin; a destination at
\* most 180 away is left as it is; the origin and both latitudes never
\* change.
C12_PairAdjustment ==
    lonPc = "adjusted" =>
        LET o == lonIn.origin
            d == lonIn.destination
            dNew == lonOut.destination
        IN  /\ lonOut.origin = o
            /\ dNew[2] = d[2]
            /\ Abs(d[1] - o[1]) > 180 * Deg =>
                  /\ dNew[1] \in {d[1] + 360 * Deg, d[1] - 360 * Deg}
                  /\ Abs(dNew[1] - o[1]) < 180 * Deg
            /\ Abs(d[1] - o[1]) <= 180 * Deg => dNew = d

C12_Witness ==
    /\ lonPc = "adjusted"
    /\ lonIn.origin[1] = 180 * Deg - 1
    /\ lonIn.destination[1] = -(180 * Deg) + 1
    /\ lonOut.destination[1] = 180 * Deg + 1

\* C14: the normalised longitude y of any longitude x has -180 < y <= 180
\* and y - x a multiple of 360; normalising y again gives y; an x already
\* in (-180, 180] is unchanged.
C14_LongitudeNormalization ==
    /\ lonPc \in {"normalized", "renormalized"} =>
          LET x == lonIn.lon
              y == lonOut.normalized
          IN  /\ -(180 * Deg) < y /\ y <= 180 * Deg
              /\ (y - x) % (360 * Deg) = 0
              /\ (-(180 * Deg) < x /\ x <= 180 * Deg) => y = x
    /\ lonPc = "renormalized" => lonOut.renormalized = lonOut.normalized

C14_Witness ==
    /\ lonPc = "renormalized"
    /\ lonIn.lon = -(180 * Deg)
    /\ lonOut.normalized = 180 * Deg

\* ------------------------- further claims about the /multi-routes service

ReturnedSegments ==
    IF response.geometry.coordinates = <<>> THEN <<>>
    ELSE SegmentsOf(response.geometry)

JumpAt(route, j) == Abs(route[j + 1][1] - route[j][1]) > 180 * Deg

\* The stretch a..b of the route is one of its pieces between two cuts.
IsRun(route, a, b) ==
    /\ a = 1 \/ JumpAt(route, a - 1)
    /\ b = Len(route) \/ JumpAt(route, b)
    /\ \A j \in a..(b - 1) : ~JumpAt(route, j)

Calculated ==
    /\ request.entry \in {"calculateSeaRoute", "/waypoints"}
    /\ response.status = "ok" \/ response.cause # ""

\* The pre-split file is missing, unreadable or unparsable and the raw
\* dataset is good.
BadCache == splitFile.kind # "ok" /\ rawFile.kind = "ok"

\* C16: with the pre-split file missing, unreadable or unparsable and the
\* raw dataset readable, the graph is rebuilt from the raw dataset and the
\* request goes on to its search; the bad file never fails the request.
C16_BestEffortCache ==
    (BadCache /\ Calculated) =>
        /\ searches # <<>>
        /\ response.cause \in {"", "error finding path with golangGeojsonDijkstra"}

\* Neither file can be read and parsed.
GraphUnavailable == splitFile.kind # "ok" /\ rawFile.kind # "ok"

HasGraph(p) == procs[p].pc \in {"graph", "searched", "created", "written"}

\* C15: over any interleaving of requests the routing graph is constructed
\* at most once, by one request, and the other requests use that graph.
C15_BuildOnce ==
    /\ Len(builds) <= 1
    /\ \A p \in Requests, q \in Requests :
         (HasGraph(p) /\ HasGraph(q)) => procs[p].newFc = procs[q].newFc

\* C18: requests share no mutable state but the read-only graph: no
\* resource is written by two requests, and what a finished request
\* persisted is the output it returned, whatever the other request did.
C18_RequestIsolation ==
    /\ Cardinality({writes[i] : i \in 1..Len(writes)}) <= 1
    /\ \A p \in Requests :
         (procs[p].pc = "done" /\ procs[p].err = "" /\ procs[p].output # NoOutput)
            => outputFile = procs[p].output

\* ------------------------------------------- claims about port names

InPortData(portName) == \E i \in 1..Len(PortData) : PortData[i].Port = portName

\* The request is routed by the port names it carries.
ByPortNames ==
    \/ /\ request.entry = "calculateSeaRoute"
       /\ request.args.isMap
       /\ request.args.origin_port_name.ok /\ request.args.origin_port_name.v # ""
       /\ request.args.destination_port_name.ok
       /\ request.args.destination_port_name.v # ""
    \/ /\ request.entry = "calculate_short_sea_route"
       /\ request.args.origin_port_name.ok
       /\ request.args.destination_port_name.ok
    \/ request.entry = "/waypoints"

\* calculatePassageInfo was called for the request: its Output or its error
\* came back.
PassageInfoCalled == response.status = "ok" \/ response.cause # ""

\* C21: at every entry point that resolves port names, a name that is not
\* in PortData gives an error response, and calculatePassageInfo is not
\* called with the (0, 0) that getPortCoordinates returns for it.
C21_UnknownPortRejected ==
    (/\ ByPortNames
     /\ \/ ~InPortData(request.args.origin_port_name.v)
        \/ ~InPortData(request.args.destination_port_name.v)) =>
        /\ response.status = "error"
        /\ ~PassageInfoCalled
        /\ \A i \in 1..Len(searches) :
             searches[i].origin # <<0, 0>> /\ searches[i].destination # <<0, 0>>

====
